---- MODULE Spec2Model ----
(***************************************************************************)
(* methdiff: for each CpG site present in two methylation-count datasets,  *)
(* the probability that one dataset's methylation level exceeds the        *)
(* other's.  The module models src/src/analysis/methdiff.cpp: the          *)
(* log-space tail sum test_greater_population and the sorted-merge loop of *)
(* main, in its three variants (methpipe-format path, BED path, and the    *)
(* second program of the file).                                            *)
(*                                                                         *)
(* Numbers.  A double is modelled as an exact rational <<n, d>>.  A value  *)
(* held in log space is modelled by the rational it is the logarithm of,   *)
(* so that the log value 0.0 is the rational 1 (n = d), a sum of logs is a *)
(* product, and exp() gives the rational back.  Floating-point rounding is *)
(* not modelled.                                                           *)
(***************************************************************************)
EXTENDS Integers, Sequences, FiniteSets, TLC

\* ---------------------------------------------------------------- bounds
MaxArg    == 6   \* largest argument handed to test_greater_population alone
MaxLen    == 2   \* longest input collection
MaxStart  == 2   \* largest start coordinate
MaxCount  == 1   \* largest read count of a site
MaxPseudo == 1   \* largest pseudocount given on the command line
ScoreDen  == 2   \* a BED score is one of 0/ScoreDen .. ScoreDen/ScoreDen

VARIABLES
  \* the merge programs
  path,             \* "methpipe" | "bed" | "bed2": which loop of the file runs
  file_a, file_b,   \* the records of the two input files, in file order
  pseudocount, OUTPUT_ALL_LOCI,
  cpgs_a, cpgs_b,   \* the loaded collections
  pc, i, j,
  out,              \* the records written so far
  pairs,            \* history: the (i, j) whose match test succeeded
  oob,              \* history: cpgs_b was read at an index >= its size
  status, err,      \* exit status and the file the error message names
  \* test_greater_population run on its own
  fargs, fpc, k, p, iters, wrapped, result

progvars == <<path, file_a, file_b, pseudocount, OUTPUT_ALL_LOCI, cpgs_a,
              cpgs_b, pc, i, j, out, pairs, oob, status, err>>
fnvars   == <<fargs, fpc, k, p, iters, wrapped, result>>
vars     == <<progvars, fnvars>>

\* ------------------------------------------------------------- rationals
RECURSIVE Gcd(_, _)
Gcd(a, b) == IF b = 0 THEN a ELSE Gcd(b, a % b)

Reduce(x) == LET g == Gcd(x[1], x[2]) IN
             IF g = 0 THEN x ELSE <<x[1] \div g, x[2] \div g>>

RatEq(x, y) == Reduce(x) = Reduce(y)

\* a/b <= c/d for a, c >= 0 and b, d > 0, without forming a product
RECURSIVE FracLeq(_, _, _, _)
FracLeq(a, b, c, d) ==
  LET qa == a \div b
      qc == c \div d
      ra == a % b
      rc == c % d
  IN  IF qa # qc THEN qa < qc
      ELSE IF ra = 0 THEN TRUE
      ELSE IF rc = 0 THEN FALSE
      ELSE FracLeq(d, rc, b, ra)

RatLeq(x, y) == FracLeq(x[1], x[2], y[1], y[2])

RatAdd(x, y) == IF x[2] = 0 \/ y[2] = 0 THEN <<0, 0>>
                ELSE IF x[2] = y[2] THEN <<x[1] + y[1], x[2]>>
                ELSE <<x[1] * y[2] + y[1] * x[2], x[2] * y[2]>>

OneMinus(x) == <<x[2] - x[1], x[2]>>

IsZeroLog(x) == x[2] # 0 /\ x[1] = x[2]   \* the log value compares equal to 0.0
ZeroLog == <<1, 1>>              \* double p = 0

\* -------------------------------------------------- the probability test
\* exp(gsl_sf_lnchoose(n, m)): the binomial coefficient; the domain error of
\* m > n, or of an operand that is the result of a wrapped subtraction, is
\* the not-a-number <<0, 0>>.
RECURSIVE Binom(_, _)
Binom(n, m) == IF m = 0 THEN 1 ELSE (Binom(n, m - 1) * (n - m + 1)) \div m

lnchoose(n, m) == IF n < 0 \/ m < 0 \/ m > n THEN <<0, 0>> ELSE <<Binom(n, m), 1>>

\* some size_t subtraction of log_hyper_g_greater goes below zero
HyperWraps(meth_a, unmeth_a, meth_b, unmeth_b, kk) ==
  \/ meth_b + unmeth_b < 1
  \/ meth_a + unmeth_a < 1
  \/ meth_a + meth_b < 1
  \/ meth_a + meth_b - 1 < kk
  \/ meth_a + unmeth_a + meth_b + unmeth_b < 2

\* mutant: the loop variable indexes the wrong coefficient
log_hyper_g_greater_swapped(meth_a, unmeth_a, meth_b, unmeth_b, kk) ==
  LET c1 == lnchoose(meth_b + unmeth_b - 1, meth_a + meth_b - 1 - kk)
      c2 == lnchoose(meth_a + unmeth_a - 1, kk)
      c3 == lnchoose(meth_a + unmeth_a + meth_b + unmeth_b - 2, meth_a + meth_b - 1)
  IN  IF c1[2] = 0 \/ c2[2] = 0 \/ c3[2] = 0 THEN <<0, 0>>
      ELSE <<c1[1] * c2[1], c3[1]>>

log_hyper_g_greater(meth_a, unmeth_a, meth_b, unmeth_b, kk) ==
  LET c1 == lnchoose(meth_b + unmeth_b - 1, kk)
      c2 == lnchoose(meth_a + unmeth_a - 1, meth_a + meth_b - 1 - kk)
      c3 == lnchoose(meth_a + unmeth_a + meth_b + unmeth_b - 2, meth_a + meth_b - 1)
  IN  IF c1[2] = 0 \/ c2[2] = 0 \/ c3[2] = 0 THEN <<0, 0>>
      ELSE <<c1[1] * c2[1], c3[1]>>

\* mutant: the empty accumulator is not told apart from a log value
log_sum_log_plain(pp, q) == RatAdd(pp, q)

log_sum_log(pp, q) ==
  IF IsZeroLog(pp) THEN q
  ELSE IF IsZeroLog(q) THEN pp
  ELSE RatAdd(pp, q)

\* mutant: the range starts one too late
FirstK_late(unmeth_a, meth_b) == IF meth_b > unmeth_a THEN meth_b - unmeth_a + 1 ELSE 1

\* mutant: the loop runs through k = meth_b
LoopCond_inclusive(kk, meth_b) == kk <= meth_b

\* the loop condition on k
LoopCond(kk, meth_b) == kk < meth_b

\* the first value of the loop variable k
FirstK(unmeth_a, meth_b) == IF meth_b > unmeth_a THEN meth_b - unmeth_a ELSE 0

RECURSIVE TgpLoop(_, _, _, _, _, _)
TgpLoop(meth_a, unmeth_a, meth_b, unmeth_b, kk, pp) ==
  IF LoopCond(kk, meth_b)
  THEN TgpLoop(meth_a, unmeth_a, meth_b, unmeth_b, kk + 1,
               log_sum_log(pp, log_hyper_g_greater(meth_a, unmeth_a, meth_b, unmeth_b, kk)))
  ELSE pp

test_greater_population(meth_a, unmeth_a, meth_b, unmeth_b) ==
  TgpLoop(meth_a, unmeth_a, meth_b, unmeth_b, FirstK(unmeth_a, meth_b), ZeroLog)

\* ------------------------------- test_greater_population, step by step
Idle == /\ fargs = <<0, 0, 0, 0>> /\ fpc = "idle" /\ k = 0 /\ p = ZeroLog
        /\ iters = 0 /\ wrapped = FALSE /\ result = <<0, 0>>

ProgIdle == /\ path = "none" /\ file_a = <<>> /\ file_b = <<>>
            /\ pseudocount = 0 /\ OUTPUT_ALL_LOCI = FALSE
            /\ cpgs_a = <<>> /\ cpgs_b = <<>> /\ pc = "idle" /\ i = 0 /\ j = 0
            /\ out = <<>> /\ pairs = <<>> /\ oob = FALSE
            /\ status = "running" /\ err = "none"

InitFn == /\ ProgIdle
          /\ fargs \in (0..MaxArg) \X (0..MaxArg) \X (0..MaxArg) \X (0..MaxArg)
          /\ fpc = "call" /\ k = 0 /\ p = ZeroLog
          /\ iters = 0 /\ wrapped = FALSE /\ result = <<0, 0>>

TgpEnter == /\ fpc = "call"
            /\ p' = ZeroLog
            /\ k' = FirstK(fargs[2], fargs[3])
            /\ fpc' = "loop"
            /\ UNCHANGED <<progvars, fargs, iters, wrapped, result>>

TgpIter == /\ fpc = "loop"
           /\ LoopCond(k, fargs[3])
           /\ p' = log_sum_log(p, log_hyper_g_greater(fargs[1], fargs[2], fargs[3], fargs[4], k))
           /\ wrapped' = (wrapped \/ HyperWraps(fargs[1], fargs[2], fargs[3], fargs[4], k))
           /\ iters' = iters + 1
           /\ k' = k + 1
           /\ UNCHANGED <<progvars, fargs, fpc, result>>

TgpReturn == /\ fpc = "loop"
             /\ ~LoopCond(k, fargs[3])
             /\ result' = p
             /\ fpc' = "returned"
             /\ UNCHANGED <<progvars, fargs, k, p, iters, wrapped>>

NextFn == TgpEnter \/ TgpIter \/ TgpReturn

SpecFn == InitFn /\ [][NextFn]_vars

\* ------------------------------------------------------- genomic sites
\* A site: position, the BED fields get_meth_unmeth reads (score, as a
\* numerator over ScoreDen, and the read count held in the name), and the
\* (first, second) pair load_cpgs gives for it.
Chroms == {"chr1", "chr2"}
ChromRank == [c \in Chroms |-> IF c = "chr1" THEN 1 ELSE 2]

Site(c, s, sc, n, m, u) ==
  [chrom |-> c, start |-> s, score |-> sc, n_reads |-> n, meth |-> m, unmeth |-> u]

same_chrom(a, b) == a.chrom = b.chrom

\* GenomicRegion::operator< on sites: chromosome first, then position
SiteLess(b, a) ==
  \/ ChromRank[b.chrom] < ChromRank[a.chrom]
  \/ (b.chrom = a.chrom /\ b.start < a.start)

check_sorted(regions) ==
  \A n \in 2..Len(regions) : ~SiteLess(regions[n], regions[n - 1])

\* the order check of methpipe::load_cpgs
load_cpgs_sorted(records) ==
  \A n \in 2..Len(records) : ~SiteLess(records[n], records[n - 1])

get_meth_unmeth(cpg) ==
  LET meth == (cpg.score * cpg.n_reads) \div ScoreDen
  IN  <<meth, cpg.n_reads - meth>>

\* ------------------------------------------------------ the merge programs
SeqsUpTo(S, n) == UNION {[1..m -> S] : m \in 0..n}

MethpipeSites(Cs, counts) ==
  {Site(c, s, 0, 0, m, u) : c \in Cs, s \in 1..MaxStart, m \in counts, u \in counts}
BedSites(Cs, scores, counts) ==
  {Site(c, s, sc, n, 0, 0) : c \in Cs, s \in 1..MaxStart, sc \in scores, n \in counts}

SitesOf(pth, Cs, scores, counts) ==
  IF pth = "methpipe" THEN MethpipeSites(Cs, counts) ELSE BedSites(Cs, scores, counts)

\* what a read of cpgs_b past its end may find
Garbage == SitesOf(path, Chroms, 0..ScoreDen, 0..MaxCount)

InitProg(Cs, scores, counts, pseudos, flags) ==
  /\ Idle
  /\ path \in {"methpipe", "bed", "bed2"}
  /\ file_a \in SeqsUpTo(SitesOf(path, Cs, scores, counts), MaxLen)
  /\ file_b \in SeqsUpTo(SitesOf(path, Cs, scores, counts), MaxLen)
  /\ pseudocount \in pseudos
  /\ OUTPUT_ALL_LOCI \in (IF path = "bed2" THEN {FALSE} ELSE flags)
  /\ cpgs_a = <<>> /\ cpgs_b = <<>>
  /\ pc = "read_a" /\ i = 0 /\ j = 0
  /\ out = <<>> /\ pairs = <<>> /\ oob = FALSE
  /\ status = "running" /\ err = "none"

\* positions vary, every site carries the same counts (one read in each field
\* its format has), the pseudocount is the default
Init == InitProg(Chroms, {1}, {1}, {1}, BOOLEAN)

\* counts, pseudocount and flag vary, on one chromosome
InitCounts == InitProg({"chr1"}, 0..ScoreDen, 0..MaxCount, 0..MaxPseudo, BOOLEAN)

\* throw SMITHLABException("CpGs not sorted in file ..."), caught in main
Throw(file) ==
  /\ pc' = "failed"
  /\ status' = "EXIT_FAILURE"
  /\ err' = file

\* mutant: the result of the order check is ignored
SortedOrThrow_unchecked(sorted, file, cont) ==
  /\ pc' = cont
  /\ UNCHANGED <<status, err>>

\* if (!check_sorted(...)) throw ...; otherwise control goes on
SortedOrThrow(sorted, file, cont) ==
  IF sorted THEN pc' = cont /\ UNCHANGED <<status, err>>
  ELSE Throw(file)

\* methpipe::load_cpgs: fills the collection, or throws on records out of order
load_cpgs(records, file, cont) ==
  IF load_cpgs_sorted(records) THEN pc' = cont /\ UNCHANGED <<status, err>>
  ELSE Throw(file)

LoadCpgsA ==
  /\ pc = "read_a" /\ path = "methpipe"
  /\ cpgs_a' = file_a
  /\ load_cpgs(file_a, "cpgs_file_a", "read_b")
  /\ UNCHANGED <<path, file_a, file_b, pseudocount, OUTPUT_ALL_LOCI, cpgs_b,
                 i, j, out, pairs, oob, fnvars>>

LoadCpgsB ==
  /\ pc = "read_b" /\ path = "methpipe"
  /\ cpgs_b' = file_b
  /\ load_cpgs(file_b, "cpgs_file_b", "loop")
  /\ UNCHANGED <<path, file_a, file_b, pseudocount, OUTPUT_ALL_LOCI, cpgs_a,
                 i, j, out, pairs, oob, fnvars>>

ReadBedA ==
  /\ pc = "read_a" /\ path \in {"bed", "bed2"}
  /\ cpgs_a' = file_a
  /\ SortedOrThrow(check_sorted(file_a), "cpgs_file_a", "read_b")
  /\ UNCHANGED <<path, file_a, file_b, pseudocount, OUTPUT_ALL_LOCI, cpgs_b,
                 i, j, out, pairs, oob, fnvars>>

ReadBedB ==
  /\ pc = "read_b" /\ path \in {"bed", "bed2"}
  /\ cpgs_b' = file_b
  /\ SortedOrThrow(check_sorted(file_b), "cpgs_file_b", "loop")
  /\ UNCHANGED <<path, file_a, file_b, pseudocount, OUTPUT_ALL_LOCI, cpgs_a,
                 i, j, out, pairs, oob, fnvars>>

\* i and j are the 0-based indices of the code; sequences are 1-based
InLoop == pc = "loop" /\ i < Len(cpgs_a)
WhileCond == j < Len(cpgs_b) /\ SiteLess(cpgs_b[j + 1], cpgs_a[i + 1])

\* while (j < cpgs_b.size() && cpgs_b[j] < cpgs_a[i]) ++j;
Advance ==
  /\ InLoop /\ WhileCond
  /\ j' = j + 1
  /\ UNCHANGED <<path, file_a, file_b, pseudocount, OUTPUT_ALL_LOCI, cpgs_a,
                 cpgs_b, pc, i, out, pairs, oob, status, err, fnvars>>

Record(a, name, score) ==
  [chrom |-> a.chrom, start |-> a.start, name |-> name, score |-> score,
   ai |-> i + 1, bj |-> j + 1]

Score(meth_a, unmeth_a, meth_b, unmeth_b) ==
  test_greater_population(meth_b + pseudocount, unmeth_b + pseudocount,
                          meth_a + pseudocount, unmeth_a + pseudocount)

\* the counts the methpipe-format loop takes from a (first, second) pair
MethpipeCounts(site) == <<site.meth, site.meth>>

\* the records one iteration writes, given the element b read at cpgs_b[j]
Emitted(a, b) ==
  LET ca == IF path = "methpipe" THEN MethpipeCounts(a) ELSE get_meth_unmeth(a)
      cb == IF path = "methpipe" THEN MethpipeCounts(b) ELSE get_meth_unmeth(b)
      covered == ca[1] + ca[2] > 0 /\ cb[1] + cb[2] > 0
      score == Score(ca[1], ca[2], cb[1], cb[2])
  IN  IF path = "bed2"
      THEN IF covered
           THEN <<Record(a, <<ca[1] + ca[2], cb[1] + cb[2]>>, score)>>
           ELSE <<>>
      ELSE IF covered \/ OUTPUT_ALL_LOCI
           THEN <<Record(a, <<ca[1], ca[2], cb[1], cb[2]>>, score)>>
           ELSE <<>>

Matches(a, b) == same_chrom(a, b) /\ a.start = b.start

\* the body of the for loop after the while loop, with b the value the
\* expression cpgs_b[j] gives
Body(b) ==
  LET a == cpgs_a[i + 1] IN
  /\ IF Matches(a, b)
     THEN /\ out' = out \o Emitted(a, b)
          /\ pairs' = Append(pairs, [ai |-> i + 1, bj |-> j + 1,
                                     emitted |-> Emitted(a, b) # <<>>])
     ELSE UNCHANGED <<out, pairs>>
  /\ i' = i + 1
  /\ UNCHANGED <<path, file_a, file_b, pseudocount, OUTPUT_ALL_LOCI, cpgs_a,
                 cpgs_b, pc, j, status, err, fnvars>>

\* the while loop has stopped at an element of cpgs_b
AtCandidate == InLoop /\ ~WhileCond /\ j < Len(cpgs_b)

MatchMethpipe ==
  /\ AtCandidate /\ path = "methpipe"
  /\ Body(cpgs_b[j + 1])
  /\ UNCHANGED oob

MatchBed ==
  /\ AtCandidate /\ path = "bed"
  /\ Body(cpgs_b[j + 1])
  /\ UNCHANGED oob

MatchBed2 ==
  /\ AtCandidate /\ path = "bed2"
  /\ Body(cpgs_b[j + 1])
  /\ UNCHANGED oob

\* j = cpgs_b.size(): cpgs_b[j] is read past the end of the vector.  The read
\* gives whatever lies there ...
MatchPastEnd ==
  /\ InLoop /\ j >= Len(cpgs_b)
  /\ oob' = TRUE
  /\ \E g \in Garbage : Body(g)

\* ... or the process dies on it
CrashPastEnd ==
  /\ InLoop /\ j >= Len(cpgs_b)
  /\ oob' = TRUE
  /\ pc' = "crashed"
  /\ status' = "SIGSEGV"
  /\ UNCHANGED <<path, file_a, file_b, pseudocount, OUTPUT_ALL_LOCI, cpgs_a,
                 cpgs_b, i, j, out, pairs, err, fnvars>>

LoopExit ==
  /\ pc = "loop" /\ ~(i < Len(cpgs_a))
  /\ pc' = "done"
  /\ status' = "EXIT_SUCCESS"
  /\ UNCHANGED <<path, file_a, file_b, pseudocount, OUTPUT_ALL_LOCI, cpgs_a,
                 cpgs_b, i, j, out, pairs, oob, err, fnvars>>

Next == \/ LoadCpgsA \/ LoadCpgsB \/ ReadBedA \/ ReadBedB
        \/ Advance \/ MatchMethpipe \/ MatchBed \/ MatchBed2
        \/ MatchPastEnd \/ CrashPastEnd \/ LoopExit

Spec       == Init /\ [][Next]_vars
SpecCounts == InitCounts /\ [][Next]_vars

\* ------------------------------------------- claims about the test alone
Returned == fpc = "returned"
AllPositive == \A n \in 1..4 : fargs[n] >= 1

\* the tail sum written out: numerators of the terms of the range, over the
\* common denominator
RECURSIVE TermSum(_, _, _, _, _)
TermSum(meth_a, unmeth_a, meth_b, unmeth_b, kk) ==
  IF kk >= meth_b THEN 0
  ELSE Binom(meth_b + unmeth_b - 1, kk) * Binom(meth_a + unmeth_a - 1, meth_a + meth_b - 1 - kk)
       + TermSum(meth_a, unmeth_a, meth_b, unmeth_b, kk + 1)

TailNum == TermSum(fargs[1], fargs[2], fargs[3], fargs[4],
                   IF fargs[3] > fargs[2] THEN fargs[3] - fargs[2] ELSE 0)
TailDen == Binom(fargs[1] + fargs[2] + fargs[3] + fargs[4] - 2, fargs[1] + fargs[3] - 1)

\* C6: for all non-negative arguments the returned value lies in [0, 1]: the
\* tail sum of the products of binomial coefficients never exceeds the
\* normalising coefficient, and no unsigned subtraction of the formula wraps.
C6_InUnitInterval ==
  /\ ~wrapped
  /\ Returned => /\ result[2] > 0
                 /\ 0 <= result[1]
                 /\ result[1] <= result[2]
                 /\ (iters > 0 => TailNum <= TailDen)

C6_Witness == /\ Returned /\ iters >= 3 /\ fargs[4] = 0
              /\ result[1] = result[2] /\ result[2] > 1

\* C7: symmetry: with all four arguments >= 1, the value at (ma, ua, mb, ub)
\* is exactly 1 minus the value at (mb, ub, ma, ua).
C7_Symmetry ==
  (Returned /\ AllPositive) =>
     RatEq(result, OneMinus(test_greater_population(fargs[3], fargs[4], fargs[1], fargs[2])))

C7_Witness == /\ Returned /\ AllPositive /\ fargs[1] # fargs[3] /\ fargs[2] # fargs[4]
              /\ 0 < result[1] /\ result[1] < result[2]
              /\ ~RatEq(result, <<1, 2>>)

\* C8: monotonicity: with all four arguments >= 1, moving one read of the
\* second pair from unmethylated to methylated (meth_b + 1, unmeth_b - 1)
\* never decreases the returned value.
C8_Monotone ==
  (Returned /\ AllPositive) =>
     RatLeq(result, test_greater_population(fargs[1], fargs[2], fargs[3] + 1, fargs[4] - 1))

C8_Witness == /\ Returned /\ AllPositive /\ fargs[4] >= 2
              /\ ~RatLeq(test_greater_population(fargs[1], fargs[2], fargs[3] + 1, fargs[4] - 1), result)

\* C10 as stated: the loop performs zero iterations only when meth_b = 0.
C10_ZeroItersOnlyMethB ==
  (Returned /\ iters = 0) => fargs[3] = 0

\* C10 as amended: the loop performs zero iterations exactly when meth_b = 0
\* or unmeth_a = 0, and then 1.0 is returned; with all four arguments >= 1
\* the range is non-empty and the returned value is the sum of its terms.
C10_ZeroIters ==
  Returned =>
    /\ (iters = 0) <=> (fargs[3] = 0 \/ fargs[2] = 0)
    /\ (iters = 0) => result = <<1, 1>>
    /\ AllPositive => /\ iters >= 1
                      /\ RatEq(result, <<TailNum, TailDen>>)

C10_Witness == Returned /\ iters = 0 /\ fargs[3] >= 1 /\ fargs[2] = 0 /\ result = <<1, 1>>

\* ---------------------------------------- claims about the merge programs
SamePos(a, b) == a.chrom = b.chrom /\ a.start = b.start

PosLeq(a, b) ==
  \/ ChromRank[a.chrom] < ChromRank[b.chrom]
  \/ (a.chrom = b.chrom /\ a.start <= b.start)

SortedByPos(s) == \A m, n \in 1..Len(s) : m < n => PosLeq(s[m], s[n])

\* the methylated and unmethylated read counts of a site of the input
RawCounts(site) ==
  IF path = "methpipe" THEN <<site.meth, site.unmeth>>
  ELSE LET m == (site.score * site.n_reads) \div ScoreDen IN <<m, site.n_reads - m>>

Total(site) == RawCounts(site)[1] + RawCounts(site)[2]

InBounds(r) == r.bj <= Len(cpgs_b)

\* C1: with both collections sorted, an element of A is paired if and only
\* if B holds a site of the same chromosome and start; it is paired at most
\* once, with a B element of that position, and pairs come in A's order.
C1_PairsExactlyCommonSites ==
  /\ pc # "crashed"
  /\ pc \in {"loop", "done"} =>
       /\ \A n \in 1..i :
            (\E q \in 1..Len(pairs) : pairs[q].ai = n)
              <=> (\E m \in 1..Len(cpgs_b) : SamePos(cpgs_a[n], cpgs_b[m]))
       /\ \A q \in 1..Len(pairs) :
            /\ InBounds(pairs[q])
            /\ SamePos(cpgs_a[pairs[q].ai], cpgs_b[pairs[q].bj])
       /\ \A q, r \in 1..Len(pairs) : q < r => pairs[q].ai < pairs[r].ai

\* C2: cpgs_b is never read at an index >= its size.
C2_NoReadPastEnd == ~oob

\* C3: in both input-format paths, a matched pair is written, with the flag
\* off, if and only if both sites have total reads > 0, and with the flag on
\* always.
C3_EmittedIffCovered ==
  path \in {"methpipe", "bed"} =>
    \A q \in 1..Len(pairs) :
      InBounds(pairs[q]) =>
        (pairs[q].emitted <=>
           (OUTPUT_ALL_LOCI \/ (/\ Total(cpgs_a[pairs[q].ai]) > 0
                                /\ Total(cpgs_b[pairs[q].bj]) > 0)))

\* C4: every written record is named by the four raw counts
\* methylated_A, unmethylated_A, methylated_B, unmethylated_B of its pair.
C4_NameIsRawCounts ==
  \A n \in 1..Len(out) :
    InBounds(out[n]) =>
      out[n].name = RawCounts(cpgs_a[out[n].ai]) \o RawCounts(cpgs_b[out[n].bj])

\* C5: the score of every written record is the test's value at
\* (mb + p, ub + p, ma + p, ua + p) for the raw counts of its pair.
C5_ScoreOfRawCounts ==
  \A n \in 1..Len(out) :
    InBounds(out[n]) =>
      LET ca == RawCounts(cpgs_a[out[n].ai])
          cb == RawCounts(cpgs_b[out[n].bj])
      IN  RatEq(out[n].score,
                test_greater_population(cb[1] + pseudocount, cb[2] + pseudocount,
                                        ca[1] + pseudocount, ca[2] + pseudocount))

StepsAgree == Returned => result = test_greater_population(fargs[1], fargs[2], fargs[3], fargs[4])

\* without a read past the end, the merge pairs exactly the common sites
PairsRightInBounds == ~oob => C1_PairsExactlyCommonSites

\* the BED paths name and score the raw counts
BedScoresRight == path \in {"bed", "bed2"} => C5_ScoreOfRawCounts
BedNamesRight == path = "bed" => (C4_NameIsRawCounts /\ C3_EmittedIffCovered)

====
